---- MODULE Spec2Model ----
(***************************************************************************)
(* VCMDecoderDataBase (modules/video_coding/decoder_database.cc): the      *)
(* receive-codec map, the external-decoder map and the single cached       *)
(* decoder, as a state machine with one action per public method.          *)
(***************************************************************************)
EXTENDS Integers, Sequences, FiniteSets

\* ------------------------------------------------------------------ bounds
\* Number of heap addresses a new VCMGenericDecoder may be placed at.
NumAddresses == 2

\* ------------------------------------------------------------ input domains
\* uint8_t payload types used by the calls: 0, the value memset leaves in
\* receive_codec_.plType, and a dynamic RTP payload type.
PayloadTypes == {0, 96}

\* The (VideoCodec, number_of_cores, require_key_frame) argument triples handed
\* to RegisterReceiveCodec: two valid ones that differ in every field, and the
\* invalid ones (kVideoCodecUnknown, a negative core count, both).
Codec(codecType, width, height) ==
    [codecType |-> codecType, width |-> width, height |-> height]

ReceiveArgs ==
    { <<Codec("H264", 0, 0), 4, FALSE>>,
      <<Codec("VP8", 320, 240), 1, TRUE>>,
      <<Codec("Unknown", 0, 0), 4, FALSE>>,
      <<Codec("H264", 0, 0), -1, FALSE>>,
      <<Codec("VP8", 320, 240), -1, TRUE>>,
      <<Codec("Unknown", 0, 0), -1, FALSE>> }

\* (_encodedWidth, _encodedHeight) of the frame handed to GetDecoder.
FrameSizes == { <<0, 0>>, <<640, 480>>, <<640, 0>> }

\* Addresses of VCMGenericDecoder objects; 0 is nullptr.
Addresses == 1 .. NumAddresses

\* VideoDecoder* instances the caller owns.
ExternalDecoders == {"E1", "E2"}

\* ------------------------------------------------------------------- state
VARIABLES
    dec_map,            \* DecoderMap: payload type -> VCMDecoderMapItem
    dec_external_map,   \* ExternalDecoderMap: payload type -> VideoDecoder*
    receive_codec,      \* receive_codec_: the VideoCodec of the cached decoder
    ptr_decoder,        \* ptr_decoder_: the cached VCMGenericDecoder
    call,               \* the last call: its name, arguments and return value
    events,             \* collaborator calls made by the last call, in order
    scenario,           \* history: how far the run has followed the end-to-end scenario
    note,               \* history: per payload type, what last happened to its entry
    rebound             \* history: payload types whose external decoder was replaced

vars == <<dec_map, dec_external_map, receive_codec, ptr_decoder,
          call, events, scenario, note, rebound>>

db == <<dec_map, dec_external_map, receive_codec, ptr_decoder>>

\* No VCMDecoderMapItem / no VCMExtDecoderMapItem under a key (find() == end()).
NoItem == [present |-> FALSE]
NoExternal == "none"

\* A VideoCodec after memset(&receive_codec_, 0, sizeof(VideoCodec)); "Zero" is
\* the VideoCodecType whose value is 0.
ZeroCodec == [plType |-> 0, codecType |-> "Zero", width |-> 0, height |-> 0]

\* An empty std::unique_ptr<VCMGenericDecoder>; get() is the handle 0 (nullptr).
NullDecoder == [id |-> 0, decoder |-> "null", external |-> FALSE]

\* VCMDecoderMapItem(settings, number_of_cores, require_key_frame)
VCMDecoderMapItem(settings, number_of_cores, require_key_frame) ==
    [present |-> TRUE, settings |-> settings,
     number_of_cores |-> number_of_cores,
     require_key_frame |-> require_key_frame]

\* ---------------------------------------------------------------- helpers
\* Variant: a payload type with an external decoder counts as registered.
FindDecoderItemOrExternal(payload_type) ==
    IF dec_map[payload_type].present \/ dec_external_map[payload_type] = NoExternal
    THEN dec_map[payload_type]
    ELSE VCMDecoderMapItem([plType |-> payload_type, codecType |-> "H264",
                            width |-> 0, height |-> 0], 1, FALSE)

FindDecoderItem(payload_type) == dec_map[payload_type]

FindExternalDecoderItem(payload_type) == dec_external_map[payload_type]

\* The build modelled: USE_BUILTIN_SW_CODECS defined, WEBRTC_LINUX not, and
\* H264Decoder::IsSupported() true.  In the other builds CreateDecoder answers
\* for kVideoCodecH264 what it answers here for every other type.
H264DecoderIsSupported == TRUE

\* static CreateDecoder(type): the decoder it wraps, or "null".
CreateDecoder(type) ==
    IF type = "H264" /\ H264DecoderIsSupported THEN "H264Decoder" ELSE "null"

\* VCMGenericDecoder::IsSameDecoder: identity of the wrapped VideoDecoder.
IsSameDecoder(generic, external_decoder_instance) ==
    generic.decoder = external_decoder_instance

\* ptr_decoder_.get()
GetCurrentDecoder == ptr_decoder.id

DecoderRegistered == \E p \in PayloadTypes : dec_map[p].present

\* ------------------------------------------------------- history variables
\* What the collaborators were asked during a call.
InitDecodes(ev) == SelectSeq(ev, LAMBDA e : e.ev = "InitDecode")

Notifications(ev) ==
    LET n == SelectSeq(ev, LAMBDA e : e.ev = "OnIncomingPayloadType")
    IN [i \in 1 .. Len(n) |-> n[i].payload_type]

CallbackRegistrations(ev) ==
    SelectSeq(ev, LAMBDA e : e.ev = "RegisterDecodeCompleteCallback")

\* Every InitDecode and RegisterDecodeCompleteCallback of the call succeeded.
EnvSucceeded(ev) ==
    \A i \in 1 .. Len(ev) : ev[i].ev = "OnIncomingPayloadType" \/ ev[i].ok

\* The end-to-end scenario, as the call that must follow each step:
\* RegisterReceiveCodec(96, built-in type, 4 cores); GetDecoder(96, 640x480);
\* GetDecoder(96); DeregisterReceiveCodec(96); GetDecoder(96); GetDecoder(0).
ScenarioCall(step, c) ==
    CASE step = 0 -> /\ c.op = "RegisterReceiveCodec" /\ c.payload_type = 96
                     /\ c.codecType = "H264" /\ c.number_of_cores = 4
      [] step = 1 -> /\ c.op = "GetDecoder" /\ c.payload_type = 96
                     /\ c.width = 640 /\ c.height = 480
      [] step = 2 -> c.op = "GetDecoder" /\ c.payload_type = 96
      [] step = 3 -> c.op = "DeregisterReceiveCodec" /\ c.payload_type = 96
      [] step = 4 -> c.op = "GetDecoder" /\ c.payload_type = 96
      [] step = 5 -> c.op = "GetDecoder" /\ c.payload_type = 0
      [] OTHER -> FALSE

\* step: calls of the scenario made so far, from the empty database (-1 once
\* the run has left it); first: what the first GetDecoder returned; inits and
\* notified: the InitDecode calls and payload-type notifications so far.
ScenarioStart == [step |-> 0, first |-> 0, inits |-> 0, notified |-> <<>>]

ScenarioOff == [step |-> -1, first |-> 0, inits |-> 0, notified |-> <<>>]

ScenarioAdvance(sc, c, ev) ==
    IF ScenarioCall(sc.step, c) /\ EnvSucceeded(ev)
    THEN [step |-> sc.step + 1,
          first |-> IF sc.step = 1 THEN c.ret ELSE sc.first,
          inits |-> sc.inits + Len(InitDecodes(ev)),
          notified |-> sc.notified \o Notifications(ev)]
    ELSE ScenarioOff

\* note[p] = Evicted: a DeregisterExternalDecoder(p) released the cached decoder
\* and no RegisterReceiveCodec(p) has succeeded since.
\* note[p] = Replaced(item): the last successful RegisterReceiveCodec(p) replaced
\* an entry, item is what it was given, and since then p was not deregistered
\* and no decoder was created for p.  note[p] = Used(item): the last call
\* created the first decoder for p since such a replacement.
NoNote == [kind |-> "none"]

Evicted == [kind |-> "evicted"]

Replaced(item) == [kind |-> "replaced", item |-> item]

Used(item) == [kind |-> "used", item |-> item]

\* note'[p] for the payload type p of call c (made in the current state, with
\* collaborator calls ev).
NoteAdvance(n, c, ev) ==
    LET p == c.payload_type
        bound == dec_external_map[p] # NoExternal
        keep == IF n.kind = "used" THEN NoNote ELSE n
        drop == IF n.kind = "evicted" THEN n ELSE NoNote
    IN
    CASE c.op = "DeregisterExternalDecoder" ->
            IF bound /\ ptr_decoder # NullDecoder
                     /\ ptr_decoder.decoder = dec_external_map[p]
            THEN Evicted
            ELSE IF bound THEN drop ELSE keep
      [] c.op = "RegisterExternalDecoder" -> IF bound THEN drop ELSE keep
      [] c.op = "RegisterReceiveCodec" ->
            IF c.ret
            THEN IF dec_map[p].present
                 THEN Replaced(VCMDecoderMapItem(
                          [plType |-> p, codecType |-> c.codecType,
                           width |-> c.width, height |-> c.height],
                          c.number_of_cores, c.require_key_frame))
                 ELSE NoNote
            ELSE IF c.number_of_cores < 0 THEN keep ELSE drop
      [] c.op = "DeregisterReceiveCodec" -> drop
      [] c.op = "GetDecoder" ->
            IF n.kind = "replaced" /\ InitDecodes(ev) # <<>>
            THEN Used(n.item)
            ELSE keep
      [] OTHER -> keep

\* rebound' for call c (made in the current state): p is in it when a
\* RegisterExternalDecoder(p) found a binding for p, and until RegisterReceiveCodec
\* is called for p.
ReboundAdvance(r, c) ==
    CASE c.op = "RegisterExternalDecoder" ->
            IF dec_external_map[c.payload_type] # NoExternal
            THEN r \cup {c.payload_type}
            ELSE r
      [] c.op = "RegisterReceiveCodec" -> r \ {c.payload_type}
      [] OTHER -> r

\* ------------------------------------------------------------------- Init
Init ==
    /\ dec_map = [p \in PayloadTypes |-> NoItem]
    /\ dec_external_map = [p \in PayloadTypes |-> NoExternal]
    /\ receive_codec = ZeroCodec
    /\ ptr_decoder = NullDecoder
    /\ call = [op |-> "VCMDecoderDataBase"]
    /\ events = <<>>
    /\ scenario = ScenarioStart
    /\ note = [p \in PayloadTypes |-> NoNote]
    /\ rebound = {}

\* --------------------------------------------------- DeregisterReceiveCodec
\* Variant: the entry is not erased.
DeregisterReceiveCodecKeepsEntry(dm, rc, payload_type) ==
    IF ~dm[payload_type].present
    THEN [ret |-> FALSE, dec_map |-> dm, receive_codec |-> rc]
    ELSE [ret |-> TRUE, dec_map |-> dm,
          receive_codec |-> IF rc.plType = payload_type THEN ZeroCodec ELSE rc]

\* Variant: receive_codec_ is not cleared.
DeregisterReceiveCodecKeepsKey(dm, rc, payload_type) ==
    IF ~dm[payload_type].present
    THEN [ret |-> FALSE, dec_map |-> dm, receive_codec |-> rc]
    ELSE [ret |-> TRUE, dec_map |-> [dm EXCEPT ![payload_type] = NoItem],
          receive_codec |-> rc]

\* The method on given maps: [ret, dec_map, receive_codec].
DeregisterReceiveCodecOn(dm, rc, payload_type) ==
    IF ~dm[payload_type].present
    THEN [ret |-> FALSE, dec_map |-> dm, receive_codec |-> rc]
    ELSE [ret |-> TRUE,
          dec_map |-> [dm EXCEPT ![payload_type] = NoItem],
          receive_codec |-> IF rc.plType = payload_type THEN ZeroCodec ELSE rc]

DeregisterReceiveCodec(payload_type) ==
    LET r == DeregisterReceiveCodecOn(dec_map, receive_codec, payload_type) IN
    /\ dec_map' = r.dec_map
    /\ receive_codec' = r.receive_codec
    /\ call' = [op |-> "DeregisterReceiveCodec", payload_type |-> payload_type,
                ret |-> r.ret]
    /\ events' = <<>>
    /\ UNCHANGED <<dec_external_map, ptr_decoder>>

\* ----------------------------------------------------- RegisterReceiveCodec
\* The VCMDecoderMapItem RegisterReceiveCodec inserts.
NewItem(plType, codec, number_of_cores, require_key_frame) ==
    VCMDecoderMapItem([plType |-> plType, codecType |-> codec.codecType,
                       width |-> codec.width, height |-> codec.height],
                      number_of_cores, require_key_frame)

\* Variant: the old entry is erased before the core count is checked.
RegisterReceiveCodecDeregistersFirst(dm, rc, plType, codec, number_of_cores, require_key_frame) ==
    LET d == DeregisterReceiveCodecKeepsEntry(dm, rc, plType)
        e == [dm EXCEPT ![plType] = NoItem]
    IN
    IF number_of_cores < 0 \/ codec.codecType = "Unknown"
    THEN [ret |-> FALSE, dec_map |-> e, receive_codec |-> d.receive_codec]
    ELSE [ret |-> TRUE,
          dec_map |-> [e EXCEPT ![plType] =
              NewItem(plType, codec, number_of_cores, require_key_frame)],
          receive_codec |-> d.receive_codec]

\* Variant: the codec type is not checked.
RegisterReceiveCodecAcceptsUnknown(dm, rc, plType, codec, number_of_cores, require_key_frame) ==
    IF number_of_cores < 0
    THEN [ret |-> FALSE, dec_map |-> dm, receive_codec |-> rc]
    ELSE LET d == DeregisterReceiveCodecOn(dm, rc, plType) IN
         [ret |-> TRUE,
          dec_map |-> [d.dec_map EXCEPT ![plType] =
              NewItem(plType, codec, number_of_cores, require_key_frame)],
          receive_codec |-> d.receive_codec]

\* Variant: the old entry is erased without clearing receive_codec_.
RegisterReceiveCodecKeepsKey(dm, rc, plType, codec, number_of_cores, require_key_frame) ==
    IF number_of_cores < 0
    THEN [ret |-> FALSE, dec_map |-> dm, receive_codec |-> rc]
    ELSE IF codec.codecType = "Unknown"
    THEN [ret |-> FALSE, dec_map |-> [dm EXCEPT ![plType] = NoItem],
          receive_codec |-> rc]
    ELSE [ret |-> TRUE,
          dec_map |-> [dm EXCEPT ![plType] =
              NewItem(plType, codec, number_of_cores, require_key_frame)],
          receive_codec |-> rc]

\* Variant: an existing entry is kept (insert without erase).
RegisterReceiveCodecKeepsFirst(dm, rc, plType, codec, number_of_cores, require_key_frame) ==
    IF number_of_cores < 0
    THEN [ret |-> FALSE, dec_map |-> dm, receive_codec |-> rc]
    ELSE IF codec.codecType = "Unknown"
    THEN [ret |-> FALSE, dec_map |-> [dm EXCEPT ![plType] = NoItem],
          receive_codec |-> IF rc.plType = plType /\ dm[plType].present
                            THEN ZeroCodec ELSE rc]
    ELSE [ret |-> TRUE,
          dec_map |-> IF dm[plType].present THEN dm
                      ELSE [dm EXCEPT ![plType] =
                               NewItem(plType, codec, number_of_cores,
                                       require_key_frame)],
          receive_codec |-> IF rc.plType = plType /\ dm[plType].present
                            THEN ZeroCodec ELSE rc]

RegisterReceiveCodecOn(dm, rc, plType, codec, number_of_cores, require_key_frame) ==
    IF number_of_cores < 0
    THEN [ret |-> FALSE, dec_map |-> dm, receive_codec |-> rc]
    ELSE LET d == DeregisterReceiveCodecOn(dm, rc, plType) IN
         IF codec.codecType = "Unknown"
         THEN [ret |-> FALSE, dec_map |-> d.dec_map,
               receive_codec |-> d.receive_codec]
         ELSE [ret |-> TRUE,
               dec_map |-> [d.dec_map EXCEPT ![plType] =
                   NewItem(plType, codec, number_of_cores, require_key_frame)],
               receive_codec |-> d.receive_codec]

RegisterReceiveCodec(plType, codec, number_of_cores, require_key_frame) ==
    LET r == RegisterReceiveCodecOn(dec_map, receive_codec, plType, codec,
                                    number_of_cores, require_key_frame) IN
    /\ dec_map' = r.dec_map
    /\ receive_codec' = r.receive_codec
    /\ call' = [op |-> "RegisterReceiveCodec", payload_type |-> plType,
                codecType |-> codec.codecType, width |-> codec.width,
                height |-> codec.height, number_of_cores |-> number_of_cores,
                require_key_frame |-> require_key_frame, ret |-> r.ret]
    /\ events' = <<>>
    /\ UNCHANGED <<dec_external_map, ptr_decoder>>

\* ------------------------------------------------ DeregisterExternalDecoder
\* Variant: the receive codec of the payload type is left registered.
DeregisterExternalDecoderNoCascade(payload_type) ==
    LET it == dec_external_map[payload_type] IN
    [ret |-> it # NoExternal,
     dec_map |-> dec_map,
     dec_external_map |-> [dec_external_map EXCEPT ![payload_type] = NoExternal],
     receive_codec |-> receive_codec,
     ptr_decoder |-> IF it # NoExternal /\ ptr_decoder.decoder = it
                     THEN NullDecoder ELSE ptr_decoder]

\* Variant: the decoder counts as in use when payload_type is receive_codec_.plType.
DeregisterExternalDecoderChecksKey(payload_type) ==
    LET it == dec_external_map[payload_type]
        d == DeregisterReceiveCodecOn(dec_map, receive_codec, payload_type)
    IN
    IF it = NoExternal
    THEN [ret |-> FALSE, dec_map |-> dec_map,
          dec_external_map |-> dec_external_map,
          receive_codec |-> receive_codec, ptr_decoder |-> ptr_decoder]
    ELSE [ret |-> TRUE,
          dec_map |-> d.dec_map,
          dec_external_map |-> [dec_external_map EXCEPT ![payload_type] = NoExternal],
          receive_codec |-> d.receive_codec,
          ptr_decoder |-> IF ptr_decoder # NullDecoder
                             /\ receive_codec.plType = payload_type
                          THEN NullDecoder ELSE ptr_decoder]

\* The method on the current state: [ret, dec_map, dec_external_map,
\* receive_codec, ptr_decoder].
DeregisterExternalDecoderOn(payload_type) ==
    LET it == dec_external_map[payload_type] IN
    IF it = NoExternal
    THEN [ret |-> FALSE, dec_map |-> dec_map,
          dec_external_map |-> dec_external_map,
          receive_codec |-> receive_codec, ptr_decoder |-> ptr_decoder]
    ELSE LET d == DeregisterReceiveCodecOn(dec_map, receive_codec, payload_type) IN
         [ret |-> TRUE,
          dec_map |-> d.dec_map,
          dec_external_map |-> [dec_external_map EXCEPT ![payload_type] = NoExternal],
          receive_codec |-> d.receive_codec,
          ptr_decoder |-> IF ptr_decoder # NullDecoder /\ IsSameDecoder(ptr_decoder, it)
                          THEN NullDecoder ELSE ptr_decoder]

DeregisterExternalDecoder(payload_type) ==
    LET r == DeregisterExternalDecoderOn(payload_type) IN
    /\ dec_map' = r.dec_map
    /\ dec_external_map' = r.dec_external_map
    /\ receive_codec' = r.receive_codec
    /\ ptr_decoder' = r.ptr_decoder
    /\ call' = [op |-> "DeregisterExternalDecoder", payload_type |-> payload_type,
                ret |-> r.ret]
    /\ events' = <<>>

\* -------------------------------------------------- RegisterExternalDecoder
\* Variant: an existing binding is overwritten in place.
RegisterExternalDecoderOverwrites(external_decoder, payload_type) ==
    /\ dec_external_map' = [dec_external_map EXCEPT ![payload_type] = external_decoder]
    /\ call' = [op |-> "RegisterExternalDecoder", payload_type |-> payload_type,
                external_decoder |-> external_decoder]
    /\ events' = <<>>
    /\ UNCHANGED <<dec_map, receive_codec, ptr_decoder>>

RegisterExternalDecoder(external_decoder, payload_type) ==
    LET r == DeregisterExternalDecoderOn(payload_type) IN
    /\ dec_map' = r.dec_map
    /\ dec_external_map' = [r.dec_external_map EXCEPT ![payload_type] = external_decoder]
    /\ receive_codec' = r.receive_codec
    /\ ptr_decoder' = r.ptr_decoder
    /\ call' = [op |-> "RegisterExternalDecoder", payload_type |-> payload_type,
                external_decoder |-> external_decoder]
    /\ events' = <<>>

\* ----------------------------------------------------- CreateAndInitDecoder
\* Variant: the built-in factory is asked first.
ResolveDecoderFactoryFirst(decoder_item, external_dec_item) ==
    IF CreateDecoder(decoder_item.settings.codecType) # "null"
    THEN CreateDecoder(decoder_item.settings.codecType)
    ELSE IF external_dec_item # NoExternal THEN external_dec_item ELSE "null"

\* The VideoDecoder the new VCMGenericDecoder wraps: the external decoder of
\* the payload type when there is one, else what CreateDecoder builds ("null"
\* when it builds nothing).
ResolveDecoder(decoder_item, external_dec_item) ==
    IF external_dec_item # NoExternal
    THEN external_dec_item
    ELSE CreateDecoder(decoder_item.settings.codecType)

\* Variant: one positive dimension is enough for the copy.
CopyResolutionEitherDimension(settings, width, height) ==
    IF width > 0 \/ height > 0
    THEN [settings EXCEPT !.width = width, !.height = height]
    ELSE settings

\* decoder_item->settings after the copy of the frame's resolution.
CopyResolution(settings, width, height) ==
    IF width > 0 /\ height > 0
    THEN [settings EXCEPT !.width = width, !.height = height]
    ELSE settings

\* Variant: the settings get their registered resolution back when InitDecode
\* fails.
CreateAndInitDecoderRestores(payload_type, width, height, new_codec, address, init_ok) ==
    LET decoder_item == FindDecoderItem(payload_type)
        external_dec_item == FindExternalDecoderItem(payload_type)
        wrapped == ResolveDecoder(decoder_item, external_dec_item)
        settings == CopyResolution(decoder_item.settings, width, height)
        init == [ev |-> "InitDecode", id |-> address, settings |-> settings,
                 number_of_cores |-> decoder_item.number_of_cores, ok |-> init_ok]
    IN
    IF ~decoder_item.present \/ wrapped = "null"
    THEN [ptr |-> NullDecoder, dec_map |-> dec_map,
          new_codec |-> new_codec, events |-> <<>>]
    ELSE IF ~init_ok
    THEN [ptr |-> NullDecoder, dec_map |-> dec_map,
          new_codec |-> new_codec, events |-> <<init>>]
    ELSE [ptr |-> [id |-> address, decoder |-> wrapped,
                   external |-> external_dec_item # NoExternal],
          dec_map |-> [dec_map EXCEPT ![payload_type].settings = settings],
          new_codec |-> settings, events |-> <<init>>]

\* The method for a frame (payload_type, width, height), writing *new_codec on
\* success; address is where the new VCMGenericDecoder is allocated and init_ok
\* whether InitDecode returns >= 0.  [ptr, dec_map, new_codec, events]: the
\* returned unique_ptr, the map after the width/height copy, *new_codec
\* afterwards, the collaborator calls made.
CreateAndInitDecoder(payload_type, width, height, new_codec, address, init_ok) ==
    LET decoder_item == FindDecoderItem(payload_type)
        external_dec_item == FindExternalDecoderItem(payload_type)
        failed == [ptr |-> NullDecoder, dec_map |-> dec_map,
                   new_codec |-> new_codec, events |-> <<>>]
    IN
    IF ~decoder_item.present THEN failed
    ELSE
    LET wrapped == ResolveDecoder(decoder_item, external_dec_item) IN
    IF wrapped = "null" THEN failed
    ELSE
    LET generic == [id |-> address, decoder |-> wrapped,
                    external |-> external_dec_item # NoExternal]
        settings == CopyResolution(decoder_item.settings, width, height)
        dm == [dec_map EXCEPT ![payload_type] =
                  VCMDecoderMapItem(settings, decoder_item.number_of_cores,
                                    decoder_item.require_key_frame)]
        init == [ev |-> "InitDecode", id |-> generic.id, settings |-> settings,
                 number_of_cores |-> decoder_item.number_of_cores, ok |-> init_ok]
    IN
    IF ~init_ok
    THEN [ptr |-> NullDecoder, dec_map |-> dm,
          new_codec |-> new_codec, events |-> <<init>>]
    ELSE [ptr |-> generic, dec_map |-> dm,
          new_codec |-> settings, events |-> <<init>>]

\* --------------------------------------------------------------- GetDecoder
\* Variant: payload type 0 is not treated as a match.
CacheHitWithoutWildcard(payload_type) == payload_type = receive_codec.plType

\* Variant: payload type 0 is looked up when a receive codec is registered for it.
CacheHitUnlessRegistered(payload_type) ==
    \/ payload_type = receive_codec.plType
    \/ payload_type = 0 /\ ~dec_map[0].present

\* The cache test of GetDecoder.
CacheHit(payload_type) ==
    payload_type = receive_codec.plType \/ payload_type = 0

\* The decoder slot and receive_codec_ after "if (ptr_decoder_) { reset; memset }".
EvictExisting ==
    IF ptr_decoder # NullDecoder
    THEN [ptr_decoder |-> NullDecoder, receive_codec |-> ZeroCodec]
    ELSE [ptr_decoder |-> ptr_decoder, receive_codec |-> receive_codec]

\* Variant: the decoder stays cached.
CallbackFailedKeepsDecoder(c) ==
    [ptr_decoder |-> c.ptr, receive_codec |-> c.new_codec]

\* GetDecoder's teardown when RegisterDecodeCompleteCallback fails, given the
\* decoder c just created: the slot and receive_codec_ it leaves.
CallbackFailed(c) ==
    [ptr_decoder |-> NullDecoder, receive_codec |-> ZeroCodec]

\* Variant: the receive callback is notified once the callback registration
\* has succeeded.
GetDecoderMissNotifiesLast(payload_type, width, height, address, init_ok, callback_ok) ==
    LET e == [ptr_decoder |-> NullDecoder,
              receive_codec |-> IF ptr_decoder # NullDecoder
                                THEN ZeroCodec ELSE receive_codec]
        c == CreateAndInitDecoder(payload_type, width, height,
                                  e.receive_codec, address, init_ok)
        notify == [ev |-> "OnIncomingPayloadType", payload_type |-> c.new_codec.plType]
        reg == [ev |-> "RegisterDecodeCompleteCallback", id |-> c.ptr.id,
                ok |-> callback_ok]
    IN
    IF c.ptr = NullDecoder
    THEN [ret |-> 0, ptr_decoder |-> NullDecoder, receive_codec |-> c.new_codec,
          dec_map |-> c.dec_map, events |-> c.events]
    ELSE IF ~callback_ok
    THEN [ret |-> 0, ptr_decoder |-> NullDecoder, receive_codec |-> ZeroCodec,
          dec_map |-> c.dec_map, events |-> c.events \o <<reg>>]
    ELSE [ret |-> c.ptr.id, ptr_decoder |-> c.ptr, receive_codec |-> c.new_codec,
          dec_map |-> c.dec_map, events |-> c.events \o <<reg, notify>>]

\* The miss path of GetDecoder: [ret, ptr_decoder, receive_codec, dec_map,
\* events].  callback_ok is whether RegisterDecodeCompleteCallback
\* returns >= 0.
GetDecoderMiss(payload_type, width, height, address, init_ok, callback_ok) ==
    LET e == EvictExisting
        c == CreateAndInitDecoder(payload_type, width, height,
                                  e.receive_codec, address, init_ok)
    IN
    IF c.ptr = NullDecoder
    THEN [ret |-> 0, ptr_decoder |-> NullDecoder, receive_codec |-> c.new_codec,
          dec_map |-> c.dec_map, events |-> c.events]
    ELSE
    LET notify == [ev |-> "OnIncomingPayloadType", payload_type |-> c.new_codec.plType]
        reg == [ev |-> "RegisterDecodeCompleteCallback", id |-> c.ptr.id,
                ok |-> callback_ok]
    IN
    IF ~callback_ok
    THEN [ret |-> 0, ptr_decoder |-> CallbackFailed(c).ptr_decoder,
          receive_codec |-> CallbackFailed(c).receive_codec,
          dec_map |-> c.dec_map,
          events |-> c.events \o <<notify, reg>>]
    ELSE [ret |-> c.ptr.id, ptr_decoder |-> c.ptr, receive_codec |-> c.new_codec,
          dec_map |-> c.dec_map,
          events |-> c.events \o <<notify, reg>>]

GetDecoderCall(payload_type, width, height, ret) ==
    [op |-> "GetDecoder", payload_type |-> payload_type, width |-> width,
     height |-> height, ret |-> ret]

\* address, init_ok and callback_ok are what the allocator, InitDecode and
\* RegisterDecodeCompleteCallback answer when the miss path asks them.
GetDecoder(payload_type, width, height) ==
    IF CacheHit(payload_type)
    THEN /\ call' = GetDecoderCall(payload_type, width, height, ptr_decoder.id)
         /\ events' = <<>>
         /\ UNCHANGED db
    ELSE \E address \in Addresses, init_ok \in BOOLEAN, callback_ok \in BOOLEAN :
         LET r == GetDecoderMiss(payload_type, width, height, address,
                                 init_ok, callback_ok) IN
         /\ ptr_decoder' = r.ptr_decoder
         /\ receive_codec' = r.receive_codec
         /\ dec_map' = r.dec_map
         /\ call' = GetDecoderCall(payload_type, width, height, r.ret)
         /\ events' = r.events
         /\ UNCHANGED dec_external_map

\* ----------------------------------------------------------- specification
Calls ==
    \/ \E p \in PayloadTypes, a \in ReceiveArgs :
          RegisterReceiveCodec(p, a[1], a[2], a[3])
    \/ \E p \in PayloadTypes : DeregisterReceiveCodec(p)
    \/ \E p \in PayloadTypes, e \in ExternalDecoders : RegisterExternalDecoder(e, p)
    \/ \E p \in PayloadTypes : DeregisterExternalDecoder(p)
    \/ \E p \in PayloadTypes, s \in FrameSizes : GetDecoder(p, s[1], s[2])

\* Every call also advances the history variables.
History ==
    /\ scenario' = ScenarioAdvance(scenario, call', events')
    /\ note' = [p \in PayloadTypes |->
                    IF p = call'.payload_type
                    THEN NoteAdvance(note[p], call', events')
                    ELSE IF note[p].kind = "used" THEN NoNote ELSE note[p]]
    /\ rebound' = ReboundAdvance(rebound, call')

Next == Calls /\ History

Spec == Init /\ [][Next]_vars

\* ------------------------------------------------------------------ claims
\* Shapes of the step being taken, read from the call it records.
Miss(c) ==
    /\ c.op = "GetDecoder"
    /\ c.payload_type # 0
    /\ c.payload_type # receive_codec.plType

\* C1, steps 1 to 5 of the end-to-end scenario: RegisterReceiveCodec(96) returns
\* true; GetDecoder(96, 640x480) returns a decoder and the payload-type
\* notification has fired once, with 96; the second GetDecoder(96) returns the
\* same handle and InitDecode has still run once; DeregisterReceiveCodec(96)
\* returns true; GetDecoder(96) then returns null.
ScenarioPrefix ==
    /\ scenario.step = 1 => call.ret = TRUE
    /\ scenario.step = 2 =>
          /\ call.ret # 0
          /\ call.ret = GetCurrentDecoder
          /\ scenario.inits = 1
          /\ scenario.notified = <<96>>
    /\ scenario.step = 3 =>
          /\ call.ret = scenario.first
          /\ scenario.inits = 1
          /\ scenario.notified = <<96>>
    /\ scenario.step = 4 => call.ret = TRUE
    /\ scenario.step = 5 => call.ret = 0

\* C1 as amended: the scenario's steps 1 to 5 hold, and the final GetDecoder(0)
\* returns null, because the GetDecoder(96) before it released the decoder.
C1_ScenarioEndsWithNull ==
    /\ ScenarioPrefix
    /\ scenario.step = 6 => call.ret = 0 /\ GetCurrentDecoder = 0

\* C1 as stated: the final GetDecoder(0) returns the decoder the first
\* GetDecoder returned, a non-null handle.
C1_ScenarioEndsWithOrphan ==
    /\ ScenarioPrefix
    /\ scenario.step = 6 => call.ret # 0 /\ call.ret = scenario.first

C1_Witness == scenario.step = 6

\* C2: a GetDecoder whose payload type is receive_codec_.plType or 0 returns
\* ptr_decoder_.get(), changes neither map, receive_codec_ nor ptr_decoder_, and
\* calls no InitDecode, no OnIncomingPayloadType and no
\* RegisterDecodeCompleteCallback.
C2_CacheHitNoSideEffects ==
    [][ ( /\ call'.op = "GetDecoder"
          /\ \/ call'.payload_type = receive_codec.plType
             \/ call'.payload_type = 0 )
        => ( /\ UNCHANGED db
             /\ call'.ret = ptr_decoder.id
             /\ events' = <<>> ) ]_vars

\* A hit on a non-zero payload type that returned the cached decoder.
C2_Witness ==
    /\ call.op = "GetDecoder"
    /\ call.payload_type = 96
    /\ receive_codec.plType = 96
    /\ events = <<>>
    /\ call.ret # 0
    /\ call.ret = ptr_decoder.id

\* C3 as stated: on a miss for a non-zero payload type with an external decoder,
\* when InitDecode and the callback registration succeed, GetDecoder returns a
\* decoder wrapping that external decoder, whether or not a receive codec is
\* registered for the payload type.
C3_ExternalBindingSuffices ==
    [][ ( /\ Miss(call')
          /\ dec_external_map[call'.payload_type] # NoExternal
          /\ EnvSucceeded(events') )
        => ( /\ call'.ret # 0
             /\ ptr_decoder'.decoder = dec_external_map[call'.payload_type] ) ]_vars

\* C3 as amended: on a miss for a non-zero payload type the receive-codec map is
\* looked up first, and without an entry GetDecoder returns null and asks no
\* decoder to initialize, external decoder or not; with an entry, an external
\* decoder for the payload type is preferred to the built-in factory, and when
\* InitDecode and the callback registration succeed the returned decoder wraps
\* that external decoder.
C3_ExternalPreferredOnceRegistered ==
    [][ /\ ( /\ Miss(call')
             /\ dec_map[call'.payload_type].present
             /\ dec_external_map[call'.payload_type] # NoExternal )
           => ( /\ InitDecodes(events') # <<>>
                /\ EnvSucceeded(events') =>
                      /\ call'.ret # 0
                      /\ ptr_decoder'.external
                      /\ ptr_decoder'.decoder =
                            dec_external_map[call'.payload_type] )
        /\ ( Miss(call') /\ ~dec_map[call'.payload_type].present )
           => ( call'.ret = 0 /\ events' = <<>> ) ]_vars

\* The external decoder was used although the factory builds the codec type.
C3_Witness ==
    /\ call.op = "GetDecoder"
    /\ call.payload_type = 96
    /\ call.ret # 0
    /\ events # <<>>
    /\ dec_map[96].present
    /\ dec_map[96].settings.codecType = "H264"
    /\ dec_external_map[96] # NoExternal
    /\ ptr_decoder.decoder = dec_external_map[96]

\* C4: RegisterExternalDecoder adds no receive codec (it never makes
\* DecoderRegistered true), and a GetDecoder miss for a non-zero payload type
\* that has an external decoder but no receive codec returns null.
C4_ExternalIsNotReceiveCodec ==
    [][ /\ call'.op = "RegisterExternalDecoder"
           => /\ DecoderRegistered' => DecoderRegistered
              /\ \A q \in PayloadTypes : dec_map'[q].present => dec_map[q].present
        /\ ( /\ Miss(call')
             /\ dec_external_map[call'.payload_type] # NoExternal
             /\ ~dec_map[call'.payload_type].present )
           => ( call'.ret = 0 /\ ptr_decoder' = NullDecoder ) ]_vars

\* GetDecoder returned null for a payload type that has only an external decoder.
C4_Witness ==
    /\ call.op = "GetDecoder"
    /\ call.payload_type = 96
    /\ call.ret = 0
    /\ receive_codec.plType # 96
    /\ dec_external_map[96] # NoExternal
    /\ ~dec_map[96].present
    /\ ~DecoderRegistered

\* C5: RegisterReceiveCodec with kVideoCodecUnknown and number_of_cores >= 0
\* returns false and changes neither map, receive_codec_ nor ptr_decoder_.
C5_UnknownTypeNoMutation ==
    [][ ( /\ call'.op = "RegisterReceiveCodec"
          /\ call'.codecType = "Unknown"
          /\ call'.number_of_cores >= 0 )
        => ( call'.ret = FALSE /\ UNCHANGED db ) ]_vars

\* C6: RegisterReceiveCodec with number_of_cores < 0 returns false and changes
\* neither map, receive_codec_ nor ptr_decoder_, whatever the codec type and
\* payload type.
C6_NegativeCoresRejected ==
    [][ ( call'.op = "RegisterReceiveCodec" /\ call'.number_of_cores < 0 )
        => ( call'.ret = FALSE /\ UNCHANGED db ) ]_vars

\* A negative core count was rejected while the payload type's entry backs the
\* cached decoder, and both are still there.
C6_Witness ==
    /\ call.op = "RegisterReceiveCodec"
    /\ call.number_of_cores < 0
    /\ call.ret = FALSE
    /\ call.payload_type = 96
    /\ dec_map[96].present
    /\ receive_codec.plType = 96
    /\ ptr_decoder # NullDecoder

\* C7: DeregisterReceiveCodec(p) with an entry for p returns true, erases that
\* entry only, clears receive_codec_ exactly when its plType is p, and leaves
\* ptr_decoder_ and the external map alone; without an entry it returns false
\* and changes nothing; a GetDecoder(0) made directly after a successful
\* DeregisterReceiveCodec returns the decoder still cached, as GetCurrentDecoder
\* does.
C7_DeregisterKeepsDecoder ==
    [][ /\ ( call'.op = "DeregisterReceiveCodec"
             /\ dec_map[call'.payload_type].present )
           => ( /\ call'.ret = TRUE
                /\ dec_map' = [dec_map EXCEPT ![call'.payload_type] = NoItem]
                /\ receive_codec' =
                      IF receive_codec.plType = call'.payload_type
                      THEN ZeroCodec ELSE receive_codec
                /\ receive_codec.plType = call'.payload_type
                      => receive_codec'.plType = 0
                /\ UNCHANGED <<ptr_decoder, dec_external_map>> )
        /\ ( call'.op = "DeregisterReceiveCodec"
             /\ ~dec_map[call'.payload_type].present )
           => ( call'.ret = FALSE /\ UNCHANGED db )
        /\ ( /\ call.op = "DeregisterReceiveCodec"
             /\ call.ret = TRUE
             /\ call'.op = "GetDecoder"
             /\ call'.payload_type = 0 )
           => ( /\ call'.ret = ptr_decoder.id
                /\ UNCHANGED ptr_decoder
                /\ GetCurrentDecoder' = call'.ret ) ]_vars

\* The codec backing the cached decoder was just deregistered: the key is 0,
\* the entry is gone, the decoder of the first GetDecoder is still cached.
C7_Witness ==
    /\ scenario.step = 4
    /\ call.op = "DeregisterReceiveCodec"
    /\ call.ret = TRUE
    /\ receive_codec.plType = 0
    /\ ~dec_map[96].present
    /\ GetCurrentDecoder # 0
    /\ GetCurrentDecoder = scenario.first

\* What DeregisterExternalDecoder(p) does at once, with and without a binding.
DeregisterExternalEffect ==
    /\ ( call'.op = "DeregisterExternalDecoder"
         /\ dec_external_map[call'.payload_type] # NoExternal )
       => ( /\ call'.ret = TRUE
            /\ dec_external_map'[call'.payload_type] = NoExternal
            /\ ~dec_map'[call'.payload_type].present
            /\ ( /\ ptr_decoder # NullDecoder
                 /\ ptr_decoder.decoder = dec_external_map[call'.payload_type] )
               => ptr_decoder' = NullDecoder )
    /\ ( call'.op = "DeregisterExternalDecoder"
         /\ dec_external_map[call'.payload_type] = NoExternal )
       => ( call'.ret = FALSE /\ UNCHANGED db )

\* After a DeregisterExternalDecoder(q) that released the cached decoder, and
\* until RegisterReceiveCodec succeeds for q: q has no receive codec and
\* GetDecoder(q) returns null.
NullUntilRegistered(q) ==
    note'[q] = Evicted
    => /\ ~dec_map'[q].present
       /\ ( call'.op = "GetDecoder" /\ call'.payload_type = q ) => call'.ret = 0

\* C8 as stated: DeregisterExternalDecoder(p) on a binding whose decoder is the
\* cached one leaves no decoder cached, no binding and no receive codec for p,
\* and every later GetDecoder(p) returns null until p is registered again;
\* without a binding it returns false and changes nothing.
C8_NullUntilRegisteredAnyType ==
    [][ /\ DeregisterExternalEffect
        /\ \A q \in PayloadTypes : NullUntilRegistered(q) ]_vars

\* C8 as amended: the same, with "every later GetDecoder(p) returns null until p
\* is registered again" for p # 0 only; GetDecoder(0) returns whatever decoder
\* is cached by then.
C8_NullUntilRegisteredNonZero ==
    [][ /\ DeregisterExternalEffect
        /\ \A q \in PayloadTypes \ {0} : NullUntilRegistered(q) ]_vars

\* A GetDecoder(96) that returned null after the external decoder backing the
\* cached decoder was deregistered under 96.
C8_Witness ==
    /\ note[96] = Evicted
    /\ call.op = "GetDecoder"
    /\ call.payload_type = 96
    /\ call.ret = 0

\* C9: a GetDecoder miss for a non-zero payload type returns null when there is
\* no receive codec, no decoder to build, or InitDecode or the callback
\* registration fails; and whenever a miss returns null, ptr_decoder_ is empty
\* afterwards (GetCurrentDecoder is null) and receive_codec_.plType is not the
\* requested payload type.
C9_FailedMissCachesNothing ==
    [][ /\ ( /\ Miss(call')
             /\ \/ ~dec_map[call'.payload_type].present
                \/ ~EnvSucceeded(events')
                \/ /\ dec_external_map[call'.payload_type] = NoExternal
                   /\ dec_map[call'.payload_type].settings.codecType # "H264" )
           => call'.ret = 0
        /\ ( Miss(call') /\ call'.ret = 0 )
           => ( /\ ptr_decoder' = NullDecoder
                /\ GetCurrentDecoder' = 0
                /\ receive_codec'.plType # call'.payload_type ) ]_vars

\* The callback registration failed after InitDecode succeeded, and nothing is
\* cached.
C9_Witness ==
    /\ call.op = "GetDecoder"
    /\ call.ret = 0
    /\ Len(events) = 3
    /\ events[1].ok
    /\ ~events[3].ok
    /\ ptr_decoder = NullDecoder
    /\ receive_codec.plType = 0

\* The first decoder created for q after a RegisterReceiveCodec(q) that replaced
\* an entry: what InitDecode was given.
FirstInitAfterReplace(q) == InitDecodes(events')[1]

ReplacedThenCreated(q) ==
    /\ note[q].kind = "replaced"
    /\ call'.op = "GetDecoder"
    /\ call'.payload_type = q
    /\ InitDecodes(events') # <<>>

\* A successful RegisterReceiveCodec leaves exactly what it was given under its
\* payload type, and touches no other entry.
RegisterReplacesEntry ==
    ( call'.op = "RegisterReceiveCodec" /\ call'.ret = TRUE )
    => dec_map' = [dec_map EXCEPT ![call'.payload_type] =
           VCMDecoderMapItem(
               [plType |-> call'.payload_type, codecType |-> call'.codecType,
                width |-> call'.width, height |-> call'.height],
               call'.number_of_cores, call'.require_key_frame)]

\* C10 as stated: after a second successful RegisterReceiveCodec(p), the next
\* decoder created for p is initialized with the second call's codec type,
\* width, height and core count.
C10_InitWithSecondConfig ==
    [][ /\ RegisterReplacesEntry
        /\ \A q \in PayloadTypes :
              ReplacedThenCreated(q)
              => /\ FirstInitAfterReplace(q).settings = note[q].item.settings
                 /\ FirstInitAfterReplace(q).number_of_cores =
                       note[q].item.number_of_cores ]_vars

\* C10 as amended: it is initialized with the second call's codec type and core
\* count, and with the second call's width and height unless the frame reports
\* width > 0 and height > 0, in which case with the frame's.
C10_InitWithSecondConfigOrFrameSize ==
    [][ /\ RegisterReplacesEntry
        /\ \A q \in PayloadTypes :
              ReplacedThenCreated(q)
              => LET i == FirstInitAfterReplace(q)
                     second == note[q].item
                     framed == call'.width > 0 /\ call'.height > 0
                 IN /\ i.settings.codecType = second.settings.codecType
                    /\ i.settings.plType = q
                    /\ i.number_of_cores = second.number_of_cores
                    /\ i.settings.width =
                          IF framed THEN call'.width ELSE second.settings.width
                    /\ i.settings.height =
                          IF framed THEN call'.height ELSE second.settings.height
      ]_vars

\* The last call created the first decoder for 96 since an entry for 96 was
\* replaced, from a frame without a resolution.
C10_Witness ==
    /\ note[96].kind = "used"
    /\ call.op = "GetDecoder"
    /\ call.width = 0
    /\ InitDecodes(events)[1].settings = note[96].item.settings
    /\ InitDecodes(events)[1].settings.codecType = "VP8"

\* C11: GetDecoder with payload type 0 asks no decoder to be created or
\* initialized, notifies nobody, changes nothing, and returns ptr_decoder_.get(),
\* which is null when no decoder is cached, also when a receive codec or an
\* external decoder is registered under payload type 0.
C11_WildcardReturnsCached ==
    [][ ( call'.op = "GetDecoder" /\ call'.payload_type = 0 )
        => ( /\ events' = <<>>
             /\ UNCHANGED db
             /\ call'.ret = ptr_decoder.id
             /\ ptr_decoder = NullDecoder => call'.ret = 0 ) ]_vars

\* GetDecoder(0) returned null although payload type 0 has a receive codec the
\* factory builds and an external decoder.
C11_Witness ==
    /\ call.op = "GetDecoder"
    /\ call.payload_type = 0
    /\ call.ret = 0
    /\ events = <<>>
    /\ dec_map[0].present
    /\ dec_map[0].settings.codecType = "H264"
    /\ dec_external_map[0] # NoExternal

\* C12: every entry of dec_map_ has number_of_cores >= 0 and a codec type other
\* than kVideoCodecUnknown, and DecoderRegistered() is true exactly when dec_map_
\* has an entry, whatever dec_external_map_ and ptr_decoder_ hold.
C12_RegistryEntriesValid ==
    /\ \A p \in PayloadTypes :
          dec_map[p].present
          => /\ dec_map[p].number_of_cores >= 0
             /\ dec_map[p].settings.codecType # "Unknown"
             /\ dec_map[p].settings.plType = p
    /\ DecoderRegistered <=> Cardinality({p \in PayloadTypes : dec_map[p] # NoItem}) > 0
    /\ ( call.op = "RegisterReceiveCodec" /\ call.ret = TRUE )
       => ( DecoderRegistered /\ call.number_of_cores >= 0 /\ call.codecType # "Unknown" )

\* An unknown codec type was just refused for 96 while 0 keeps its entry, 96 has
\* an external decoder and a decoder is cached.
C12_Witness ==
    /\ call.op = "RegisterReceiveCodec"
    /\ call.codecType = "Unknown"
    /\ call.number_of_cores >= 0
    /\ call.payload_type = 96
    /\ call.ret = FALSE
    /\ DecoderRegistered
    /\ dec_map[0].present
    /\ ~dec_map[96].present
    /\ dec_external_map[96] # NoExternal
    /\ ptr_decoder # NullDecoder

\* C13: receive_codec_ and ptr_decoder_ are set and cleared together: whenever
\* receive_codec_.plType names a payload type other than 0, a decoder is cached.
C13_KeyImpliesDecoder ==
    receive_codec.plType # 0 => ptr_decoder # NullDecoder

\* C14: GetDecoder(p) for p # 0 returns a decoder whenever p has a receive
\* codec, a decoder can be resolved for it (an external decoder for p, or a codec
\* type CreateDecoder builds), and every InitDecode and callback registration
\* the call makes succeeds.
C14_NullOnlyForListedCause ==
    [][ ( /\ call'.op = "GetDecoder"
          /\ call'.payload_type # 0
          /\ dec_map[call'.payload_type].present
          /\ \/ dec_external_map[call'.payload_type] # NoExternal
             \/ dec_map[call'.payload_type].settings.codecType = "H264"
          /\ EnvSucceeded(events') )
        => call'.ret # 0 ]_vars

\* C15: in a GetDecoder call OnIncomingPayloadType is called exactly when the
\* call's InitDecode succeeded, and then once, with the payload type of the
\* frame, after InitDecode and before RegisterDecodeCompleteCallback; the value
\* is the plType of the codec just copied into receive_codec_, which is what the
\* database keeps when the call returns the decoder.  It is not called on a
\* cache hit, nor when no decoder was resolved or InitDecode failed; it has been
\* called when the callback registration fails and the call returns null.
C15_NotifiedOncePerCreation ==
    [][ call'.op = "GetDecoder"
        => LET inits == InitDecodes(events')
               notes == Notifications(events')
               regs == CallbackRegistrations(events')
               created == inits # <<>> /\ inits[1].ok
           IN /\ Len(inits) <= 1
              /\ Len(notes) = IF created THEN 1 ELSE 0
              /\ Len(regs) = Len(notes)
              /\ created
                 => /\ notes[1] = call'.payload_type
                    /\ notes[1] = inits[1].settings.plType
                    /\ events'[1].ev = "InitDecode"
                    /\ events'[2].ev = "OnIncomingPayloadType"
                    /\ events'[3].ev = "RegisterDecodeCompleteCallback"
                    /\ Len(events') = 3
                    /\ IF regs[1].ok
                       THEN call'.ret # 0 /\ receive_codec'.plType = notes[1]
                       ELSE call'.ret = 0 /\ receive_codec'.plType = 0
              /\ CacheHit(call'.payload_type) => events' = <<>>
              /\ ~created => call'.ret = 0 \/ CacheHit(call'.payload_type)
      ]_vars

\* The notification for 96 fired and the callback registration then failed: the
\* call returned null.
C15_Witness ==
    /\ call.op = "GetDecoder"
    /\ call.payload_type = 96
    /\ call.ret = 0
    /\ Len(events) = 3
    /\ events[1].ev = "InitDecode" /\ events[1].ok
    /\ events[2] = [ev |-> "OnIncomingPayloadType", payload_type |-> 96]
    /\ events[3].ev = "RegisterDecodeCompleteCallback" /\ ~events[3].ok

\* A decoder is resolved for payload type p: p has a receive codec, and an
\* external decoder or a codec type CreateDecoder builds.
Resolved(p) ==
    /\ dec_map[p].present
    /\ \/ dec_external_map[p] # NoExternal
       \/ dec_map[p].settings.codecType = "H264"

\* C16: on a GetDecoder miss for p with a decoder resolved, a frame with
\* width > 0 and height > 0 has its width and height written into the settings
\* of dec_map_[p] and nothing else of dec_map_ changes, InitDecode is given the
\* settings so patched, and on success receive_codec_ is a copy of them; with
\* width or height 0 dec_map_ is unchanged and InitDecode is given the settings
\* as registered.  When p has no receive codec or no decoder is resolved,
\* dec_map_ is unchanged and InitDecode is not called.
C16_ResolutionPatch ==
    [][ Miss(call')
        => LET p == call'.payload_type
               framed == call'.width > 0 /\ call'.height > 0
               inits == InitDecodes(events')
           IN /\ ( Resolved(p) /\ framed )
                 => /\ dec_map' = [dec_map EXCEPT
                                      ![p].settings.width = call'.width,
                                      ![p].settings.height = call'.height]
                    /\ dec_map'[p].settings.width = call'.width
                    /\ dec_map'[p].settings.height = call'.height
              /\ ( Resolved(p) /\ ~framed ) => dec_map' = dec_map
              /\ Resolved(p)
                 => /\ Len(inits) = 1
                    /\ inits[1].settings = dec_map'[p].settings
                    /\ inits[1].number_of_cores = dec_map[p].number_of_cores
                    /\ call'.ret # 0 => receive_codec' = dec_map'[p].settings
              /\ ~Resolved(p)
                 => /\ dec_map' = dec_map
                    /\ inits = <<>>
                    /\ call'.ret = 0 ]_vars

\* GetDecoder(96, 640x480) right after RegisterReceiveCodec(96) with 0x0: the
\* entry, the InitDecode argument and receive_codec_ all carry 640x480.
C16_Witness ==
    /\ scenario.step = 2
    /\ call.width = 640 /\ call.height = 480
    /\ call.ret # 0
    /\ dec_map[96].settings.width = 640 /\ dec_map[96].settings.height = 480
    /\ InitDecodes(events)[1].settings.width = 640
    /\ InitDecodes(events)[1].settings.height = 480
    /\ receive_codec.width = 640 /\ receive_codec.height = 480

\* C17: whenever the cached decoder wraps an external decoder, dec_external_map_
\* still binds that external decoder under some payload type; and a
\* DeregisterExternalDecoder or RegisterExternalDecoder on a payload type bound to
\* the external decoder the cached decoder wraps leaves no decoder cached,
\* whether or not that payload type is receive_codec_.plType.
C17_NoDanglingExternal ==
    [][ /\ ptr_decoder'.external
           => \E p \in PayloadTypes : dec_external_map'[p] = ptr_decoder'.decoder
        /\ ( /\ call'.op \in {"DeregisterExternalDecoder", "RegisterExternalDecoder"}
             /\ ptr_decoder.external
             /\ dec_external_map[call'.payload_type] = ptr_decoder.decoder )
           => ptr_decoder' = NullDecoder ]_vars

\* The decoder cached for 96 was released by DeregisterExternalDecoder(0), the
\* other payload type its external decoder was bound to.
C17_Witness ==
    /\ call.op = "DeregisterExternalDecoder"
    /\ call.payload_type = 0
    /\ note[0] = Evicted
    /\ ptr_decoder = NullDecoder
    /\ receive_codec.plType = 96
    /\ dec_external_map[96] # NoExternal

\* When receive_codec_.plType is a payload type p # 0, dec_map_ has an entry for
\* p and receive_codec_ equals that entry's settings.
KeyMatchesRegistry ==
    receive_codec.plType # 0
    => /\ dec_map[receive_codec.plType].present
       /\ receive_codec = dec_map[receive_codec.plType].settings

\* After a RegisterReceiveCodec(q) that replaced an entry, q # 0 is not the
\* cache key, so the next GetDecoder(q) is a miss: with a decoder resolved it
\* creates one and calls InitDecode with the settings of the new entry as
\* dec_map_ then holds them (the registered codec type and core count; width and
\* height as registered or as copied from the frame).
ReRegisteredIsMiss ==
    \A q \in PayloadTypes \ {0} :
       note[q].kind = "replaced"
       => /\ receive_codec.plType # q
          /\ ( call'.op = "GetDecoder" /\ call'.payload_type = q /\ Resolved(q) )
             => /\ InitDecodes(events') # <<>>
                /\ InitDecodes(events')[1].settings = dec_map'[q].settings
                /\ InitDecodes(events')[1].settings.codecType =
                      note[q].item.settings.codecType
                /\ InitDecodes(events')[1].number_of_cores =
                      note[q].item.number_of_cores
                /\ call'.ret # 0 => ptr_decoder'.id = call'.ret

\* C18 as stated: the cache key matches the registry, and any
\* RegisterReceiveCodec or DeregisterReceiveCodec on the payload type that is
\* the cache key resets the key to 0, so that the next GetDecoder after a
\* re-registration creates and initializes a decoder.
C18_AnyRegisterResetsKey ==
    [][ /\ KeyMatchesRegistry'
        /\ ( /\ call'.op \in {"RegisterReceiveCodec", "DeregisterReceiveCodec"}
             /\ call'.payload_type = receive_codec.plType )
           => receive_codec'.plType = 0
        /\ ReRegisteredIsMiss ]_vars

\* C18 as amended: the same for DeregisterReceiveCodec and for a
\* RegisterReceiveCodec with number_of_cores >= 0 (accepted, or refused for
\* kVideoCodecUnknown); a RegisterReceiveCodec with number_of_cores < 0 leaves
\* receive_codec_ as it is, still matching the entry it leaves in place.
C18_RegisterResetsKeyUnlessCoresRejected ==
    [][ /\ KeyMatchesRegistry'
        /\ ( /\ \/ call'.op = "DeregisterReceiveCodec"
                \/ call'.op = "RegisterReceiveCodec" /\ call'.number_of_cores >= 0
             /\ call'.payload_type = receive_codec.plType )
           => receive_codec' = ZeroCodec
        /\ ( call'.op = "RegisterReceiveCodec" /\ call'.number_of_cores < 0 )
           => UNCHANGED <<receive_codec, dec_map>>
        /\ ReRegisteredIsMiss ]_vars

\* The first GetDecoder(96) after a re-registration of 96 created a decoder: the
\* key is 96 and receive_codec_ equals the new entry, frame resolution included.
C18_Witness ==
    /\ note[96].kind = "used"
    /\ call.op = "GetDecoder"
    /\ call.payload_type = 96
    /\ call.width = 640 /\ call.height = 480
    /\ call.ret # 0
    /\ receive_codec.plType = 96
    /\ receive_codec = dec_map[96].settings
    /\ receive_codec.codecType = note[96].item.settings.codecType
    /\ receive_codec.width = 640

\* What RegisterExternalDecoder(e, p) does at once: the binding of p is e
\* afterwards; over an existing binding, p has no receive codec afterwards and
\* the cached decoder is released when it wraps the old binding's decoder;
\* without a binding, dec_map_, receive_codec_ and ptr_decoder_ are unchanged.
RegisterExternalEffect ==
    call'.op = "RegisterExternalDecoder"
    => LET p == call'.payload_type IN
       /\ dec_external_map' =
             [dec_external_map EXCEPT ![p] = call'.external_decoder]
       /\ dec_external_map[p] # NoExternal
          => /\ ~dec_map'[p].present
             /\ \A q \in PayloadTypes \ {p} : dec_map'[q] = dec_map[q]
             /\ ( ptr_decoder # NullDecoder /\ ptr_decoder.decoder = dec_external_map[p] )
                => ptr_decoder' = NullDecoder
       /\ dec_external_map[p] = NoExternal
          => UNCHANGED <<dec_map, receive_codec, ptr_decoder>>

\* From a RegisterExternalDecoder(q) over an existing binding until
\* RegisterReceiveCodec is called for q: q has no receive codec and
\* GetDecoder(q) returns null.
NullUntilRegisteredAgain(q) ==
    q \in rebound'
    => /\ ~dec_map'[q].present
       /\ ( call'.op = "GetDecoder" /\ call'.payload_type = q ) => call'.ret = 0

\* C19 as stated: for every payload type p.
C19_ReboundNullAnyType ==
    [][ /\ RegisterExternalEffect
        /\ \A q \in PayloadTypes : NullUntilRegisteredAgain(q) ]_vars

\* C19 as amended: "GetDecoder(p) returns null until RegisterReceiveCodec is
\* called again for p" for p # 0 only; GetDecoder(0) returns whatever decoder is
\* cached by then.
C19_ReboundNullNonZero ==
    [][ /\ RegisterExternalEffect
        /\ \A q \in PayloadTypes \ {0} : NullUntilRegisteredAgain(q)
        /\ 0 \in rebound' => ~dec_map'[0].present ]_vars

\* GetDecoder(96) returned null after the external decoder of 96 was replaced
\* (no DeregisterExternalDecoder(96) released a decoder) and before
\* RegisterReceiveCodec was called for 96 again.
C19_Witness ==
    /\ 96 \in rebound
    /\ call.op = "GetDecoder"
    /\ call.payload_type = 96
    /\ call.ret = 0
    /\ dec_external_map[96] # NoExternal
    /\ note[96] # Evicted

\* C20: a GetDecoder call, whatever it returns, leaves dec_external_map_ as it
\* is, adds and removes no entry of dec_map_, and changes nothing of dec_map_
\* but the width and height of the settings of the requested payload type; a
\* frame with width > 0 and height > 0 leaves its width and height in those
\* settings also when the InitDecode that follows fails and null is returned.
C20_GetDecoderFootprint ==
    [][ call'.op = "GetDecoder"
        => LET p == call'.payload_type
               inits == InitDecodes(events')
           IN /\ UNCHANGED dec_external_map
              /\ \A q \in PayloadTypes :
                    /\ dec_map'[q].present <=> dec_map[q].present
                    /\ q # p => dec_map'[q] = dec_map[q]
              /\ dec_map[p].present
                 => /\ dec_map'[p].settings.codecType = dec_map[p].settings.codecType
                    /\ dec_map'[p].settings.plType = dec_map[p].settings.plType
                    /\ dec_map'[p].number_of_cores = dec_map[p].number_of_cores
                    /\ dec_map'[p].require_key_frame = dec_map[p].require_key_frame
              /\ ( inits # <<>> /\ ~inits[1].ok )
                 => /\ call'.ret = 0
                    /\ ( call'.width > 0 /\ call'.height > 0 )
                       => /\ dec_map'[p].settings.width = call'.width
                          /\ dec_map'[p].settings.height = call'.height ]_vars

\* 96 was registered again with 320x240 and the first GetDecoder(96) since, for
\* a 640x480 frame, failed in InitDecode: the entry holds 640x480.
C20_Witness ==
    /\ note[96].kind = "used"
    /\ note[96].item.settings.width = 320
    /\ call.op = "GetDecoder"
    /\ call.ret = 0
    /\ InitDecodes(events) # <<>>
    /\ ~InitDecodes(events)[1].ok
    /\ dec_map[96].settings.width = 640
    /\ dec_map[96].settings.height = 480
    /\ ptr_decoder = NullDecoder

====
